---- MODULE Spec2Model ----
(***************************************************************************)
(* A model of counterfeiter's generator (generator/generator.go).          *)
(*                                                                         *)
(* Three parts share this module:                                          *)
(*   - the generation engine's import registry (Fake.AddImport,            *)
(*     Fake.disambiguateAliases, ...), specified by GenSpec, and by        *)
(*     GenFairSpec for the termination of its loop;                        *)
(*   - a run of NewFake and Fake.Generate on an interface (discovery, the  *)
(*     import map, rendering), specified by GenerateSpec;                  *)
(*   - the run-time behaviour of the fake that fakeTemplate emits (the     *)
(*     generated methods, their accessors, Invocations, recordInvocation), *)
(*     specified by Spec.                                                  *)
(*                                                                         *)
(* Go strings are sequences of bytes (numbers 0..255).                     *)
(***************************************************************************)
EXTENDS Integers, Sequences, FiniteSets, TLC

VARIABLES
    \* ---- the generation engine: fields of the Fake struct --------------
    Imports,            \* f.Imports: sequence of [Alias, Path]
    InterfacePackage,   \* f.InterfacePackage
    InterfaceAlias,     \* f.InterfaceAlias
    gpc,                \* where the generation run is
    lastAdd,            \* the last AddImport call: its arguments, its result
                        \* and f.Imports as it was before the call
    preImports,         \* f.Imports when disambiguateAliases was entered
    adds,               \* number of AddImport calls made by import discovery
    rounds,             \* iterations of disambiguateAliases' for-loop so far
    \* ---- the generation engine: a run of Generate ----------------------
    Interface,          \* f.Interface: the signatures of its method set
    discovered,         \* parameter and result types addImportsFor was run on
    importsMap,         \* Generate's importsMap, as the list it was built from
    FakeMethods,        \* f.Methods
    generated,          \* what Generate returned: nothing yet, text or an error
    \* ---- one instance of the generated fake, and the test that uses it ---
    mutex,              \* the sync.RWMutex fields: who holds each, and how
    Stub,               \* fake.<M>Stub per method
    ArgsForCall,        \* fake.<m>ArgsForCall per method
    Returns,            \* fake.<m>Returns per method
    ReturnsOnCall,      \* fake.<m>ReturnsOnCall per method
    invocations,        \* fake.invocations
    heap,               \* the backing arrays of all slices
    pc,                 \* per thread: the statement it is at
    loc,                \* per thread: the locals of the operation it runs
    calls,              \* per method: the argument tuples of the calls made,
                        \* in the order they took the method's lock, by value
                        \* as they were when passed
    held,               \* the ledger an Invocations() last returned to the test
    started,            \* number of method calls started
    ops,                \* number of operations the test started
    writes,             \* number of writes the test made through slices it holds
    crashed             \* the Go runtime stopped the process (fatal error)

rvars == <<mutex, Stub, ArgsForCall, Returns, ReturnsOnCall, invocations, heap,
           pc, loc, calls, held, started, ops, writes, crashed>>

gvars == <<Imports, InterfacePackage, InterfaceAlias, gpc, lastAdd, preImports,
           adds, rounds>>

tvars == <<Interface, discovered, importsMap, FakeMethods, generated>>

vars == <<gvars, tvars, rvars>>

----------------------------------------------------------------------------
(* Strings *)

Letters == <<"a", "b", "c", "d", "e", "f", "g", "h", "i", "j", "k", "l", "m",
             "n", "o", "p", "q", "r", "s", "t", "u", "v", "w", "x", "y", "z">>

\* The byte of a character written as a one-character TLA+ string.
Ord(c) ==
    CASE c = " " -> 32
      [] c = "*" -> 42
      [] c = "-" -> 45
      [] c = "." -> 46
      [] c = "/" -> 47
      [] c = "<" -> 60
      [] c = "T" -> 84
      [] c = "U" -> 85
      [] c = "V" -> 86
      [] c = "[" -> 91
      [] c = "]" -> 93
      [] OTHER -> 96 + (CHOOSE i \in 1..26 : Letters[i] = c)

\* The Go string spelled by a tuple of one-character strings.
Str(t) == [i \in 1..Len(t) |-> Ord(t[i])]

\* s[i:] of Go, with i a 0-based byte offset.
From(s, i) == SubSeq(s, i + 1, Len(s))

\* strings.HasPrefix
HasPrefix(s, p) == Len(s) >= Len(p) /\ SubSeq(s, 1, Len(p)) = p

\* Whether sub occurs in s at 0-based offset i.
OccursAt(s, sub, i) ==
    i + Len(sub) <= Len(s) /\ SubSeq(s, i + 1, i + Len(sub)) = sub

\* strings.LastIndex: the 0-based offset of the last occurrence, or -1.
LastIndex(s, sub) ==
    LET hits == {i \in 0..Len(s) : OccursAt(s, sub, i)}
    IN  IF hits = {} THEN -1 ELSE CHOOSE i \in hits : \A k \in hits : k <= i

\* unicode.IsSpace on the one-byte white space characters.
IsSpace(c) == c \in {9, 10, 11, 12, 13, 32}

\* strings.TrimSpace
TrimSpace(s) ==
    LET keep == {i \in 1..Len(s) : ~IsSpace(s[i])}
    IN  IF keep = {} THEN <<>>
        ELSE SubSeq(s, CHOOSE i \in keep : \A k \in keep : i <= k,
                       CHOOSE i \in keep : \A k \in keep : k <= i)

\* Go's < on strings: bytewise lexicographic order.
RECURSIVE StrLess(_, _)
StrLess(a, b) ==
    IF b = <<>> THEN FALSE
    ELSE IF a = <<>> THEN TRUE
    ELSE IF a[1] # b[1] THEN a[1] < b[1]
    ELSE StrLess(Tail(a), Tail(b))

\* string(b) for a byte b: the UTF-8 encoding of the code point b.
StringOfByte(b) ==
    IF b < 128 THEN <<b>> ELSE <<192 + (b \div 64), 128 + (b % 64)>>

VendorDir == Str(<<"/", "v", "e", "n", "d", "o", "r", "/">>)
VendorPrefix == Str(<<"v", "e", "n", "d", "o", "r", "/">>)

unvendor(s) ==
    LET i == LastIndex(s, VendorDir)
    IN  IF i >= 0 THEN From(s, i + Len(VendorDir))
        ELSE IF HasPrefix(s, VendorPrefix) THEN From(s, Len(VendorPrefix))
        ELSE s

----------------------------------------------------------------------------
(* The import registry *)

Import(alias, path) == [Alias |-> alias, Path |-> path]

\* The zero Import: what a miss in a map[string]Import yields.
NoImport == Import(<<>>, <<>>)

\* The first index of imps whose Path is path, or 0.
IndexOfPath(imps, path) ==
    LET hits == {i \in 1..Len(imps) : imps[i].Path = path}
    IN  IF hits = {} THEN 0 ELSE CHOOSE i \in hits : \A k \in hits : i <= k

\* AddImport looking the path up as it was given, trimmed but still vendored.
AddImportTo_rawPath(imps, alias, path) ==
    LET p == TrimSpace(path)
        a == TrimSpace(alias)
        i == IndexOfPath(imps, p)
    IN  IF i > 0
        THEN [imports |-> imps, result |-> imps[i]]
        ELSE [imports |-> Append(imps, Import(a, p)), result |-> Import(a, p)]

\* Fake.AddImport as a function of f.Imports: the new list and the result.
AddImportTo(imps, alias, path) ==
    LET p == unvendor(TrimSpace(path))
        a == TrimSpace(alias)
        i == IndexOfPath(imps, p)
    IN  IF i > 0
        THEN [imports |-> imps, result |-> imps[i]]
        ELSE [imports |-> Append(imps, Import(a, p)), result |-> Import(a, p)]

\* sort.SliceStable by Path: insertion after every element that is not greater.
RECURSIVE InsertByPath(_, _)
InsertByPath(sorted, imp) ==
    IF sorted = <<>> THEN <<imp>>
    ELSE IF StrLess(imp.Path, sorted[1].Path)
         THEN <<imp>> \o sorted
         ELSE <<sorted[1]>> \o InsertByPath(Tail(sorted), imp)

\* No sort: the list stays in discovery order.
sortImports_none(imps) == imps

RECURSIVE sortImports(_)
sortImports(imps) ==
    IF imps = <<>> THEN <<>>
    ELSE InsertByPath(sortImports(SubSeq(imps, 1, Len(imps) - 1)),
                      imps[Len(imps)])

\* Fake.aliasMap: byAlias[alias], the imports with that alias in list order.
aliasMap(imps, alias) == SelectSeq(imps, LAMBDA imp : imp.Alias = alias)

\* A duplicate test that sees only neighbours in the list.
hasDuplicateAliases_adjacent(imps) ==
    \E i \in 1..(Len(imps) - 1) : imps[i].Alias = imps[i + 1].Alias

\* Fake.hasDuplicateAliases (lines 72-81): some alias names two imports.
hasDuplicateAliases(imps) ==
    \E i \in 1..Len(imps) : Len(aliasMap(imps, imps[i].Alias)) > 1

\* The inner loop over j (lines 112-119) for f.Imports[i] = imp, from the
\* 0-based index j on: imp as that loop leaves it.
RECURSIVE SuffixLoop(_, _, _)
SuffixLoop(imp, group, j) ==
    IF j >= Len(group) THEN imp
    ELSE IF group[j + 1].Path = imp.Path /\ j > 0
         THEN SuffixLoop(
                 Import(imp.Alias \o StringOfByte((97 + ((j - 1) % 256)) % 256),
                        imp.Path),
                 group, j + 1)
         ELSE SuffixLoop(imp, group, j + 1)

\* A pass that gives every member of a group, the first too, the suffix "a".
RenameEntry_all(imps, i) ==
    IF Len(aliasMap(imps, imps[i].Alias)) = 1 THEN imps[i]
    ELSE Import(imps[i].Alias \o StringOfByte(97), imps[i].Path)

\* One pass of the loop over i (lines 106-120): entry i after the pass. byAlias
\* is the alias map taken at the start of the round (line 101).
RenameEntry(imps, i) ==
    LET group == aliasMap(imps, imps[i].Alias)
    IN  IF Len(group) = 1 THEN imps[i] ELSE SuffixLoop(imps[i], group, 0)

RenameRound(imps) == [i \in 1..Len(imps) |-> RenameEntry(imps, i)]

\* A round that renames without telling the locator.
AliasAfterRound_keep(imps, ifacePkg, ifaceAlias) == ifaceAlias

\* f.InterfaceAlias after one pass: line 116 runs for every entry that was
\* renamed and whose path is f.InterfacePackage; the last one wins.
AliasAfterRound(imps, ifacePkg, ifaceAlias) ==
    LET after == RenameRound(imps)
        hits == {i \in 1..Len(imps) :
                    after[i] # imps[i] /\ imps[i].Path = ifacePkg}
    IN  IF hits = {} THEN ifaceAlias
        ELSE after[CHOOSE i \in hits : \A k \in hits : k <= i].Alias

\* The for-loop of disambiguateAliases (lines 100-121), run to its break: the
\* list and f.InterfaceAlias it leaves.
RECURSIVE RenameLoop(_, _, _)
RenameLoop(imps, ifacePkg, ifaceAlias) ==
    IF ~hasDuplicateAliases(imps)
    THEN [Imports |-> imps, InterfaceAlias |-> ifaceAlias]
    ELSE RenameLoop(RenameRound(imps), ifacePkg,
                    AliasAfterRound(imps, ifacePkg, ifaceAlias))

\* Fake.disambiguateAliases (lines 90-125) as a function of f.Imports,
\* f.InterfacePackage and f.InterfaceAlias.
disambiguateAliases(imps, ifacePkg, ifaceAlias) ==
    LET sorted == sortImports(imps)
    IN  IF ~hasDuplicateAliases(sorted)
        THEN [Imports |-> sorted, InterfaceAlias |-> ifaceAlias]
        ELSE RenameLoop(sorted, ifacePkg, ifaceAlias)

----------------------------------------------------------------------------
(* Inputs of the generation engine *)

MaxAdds == 3

\* The rounds of disambiguateAliases' loop that a run is followed for.
MaxRounds == 6

RawAliases ==
    { Str(<<"x">>), Str(<<"x", "a">>), Str(<<" ", "x">>), Str(<<"y">>) }

RawPaths ==
    { Str(<<"p", "/", "a">>),
      Str(<<"q", "/", "v", "e", "n", "d", "o", "r", "/", "p", "/", "a">>),
      Str(<<"v", "e", "n", "d", "o", "r", "/", "p", "/", "b">>),
      Str(<<"p", "/", "c", " ">>),
      Str(<<"p", "/", "d">>),
      Str(<<"s", "y", "n", "c">>) }

SyncStr == Str(<<"s", "y", "n", "c">>)

\* A loaded package: pkg.Name, pkg.PkgPath, whether pkg.Types and its scope are
\* there, and whether the scope declares f.InterfaceName as a type name.
Pkg(name, path, typed, declares) ==
    [Name |-> name, PkgPath |-> path, Typed |-> typed, Declares |-> declares]

PackageLists ==
    { <<Pkg(Str(<<"x">>), Str(<<"p", "/", "a">>), TRUE, TRUE)>>,
      <<Pkg(Str(<<"x">>), Str(<<"p", "/", "d">>), FALSE, FALSE),
        Pkg(Str(<<"x">>),
            Str(<<"q", "/", "v", "e", "n", "d", "o", "r", "/", "p", "/", "b">>),
            TRUE, TRUE)>>,
      <<Pkg(Str(<<"y">>), Str(<<"p", "/", "d">>), TRUE, TRUE),
        Pkg(Str(<<"x">>), Str(<<"p", "/", "a">>), TRUE, TRUE)>>,
      <<Pkg(SyncStr, SyncStr, TRUE, TRUE)>>,
      <<Pkg(Str(<<"x">>), Str(<<"p", "/", "a">>), TRUE, FALSE)>>,
      <<>> }

----------------------------------------------------------------------------
(* Type descriptors and their rendering *)

\* A go/types type: its dynamic kind and the parts the generator reads.
\* elem and key are descriptors (or NoType); dir is a channel's direction;
\* hasObj and hasPkg say whether t.Obj() and t.Obj().Pkg() are non-nil.
NoType == [kind |-> "nil"]

Basic(name) == [name |-> name, kind |-> "Basic"]
Slice(elem) == [kind |-> "Slice", elem |-> elem]
Array(n, elem) == [kind |-> "Array", elem |-> elem, len |-> n]
Pointer(elem) == [kind |-> "Pointer", elem |-> elem]
Map(key, elem) == [kind |-> "Map", elem |-> elem, key |-> key]
Chan(dir, elem) == [kind |-> "Chan", elem |-> elem, dir |-> dir]
Named(name, hasObj, hasPkg, pkgName, pkgPath) ==
    [name |-> name, kind |-> "Named", hasObj |-> hasObj, hasPkg |-> hasPkg,
     pkgName |-> pkgName, pkgPath |-> pkgPath]

\* fmt's %v of a non-negative integer.
RECURSIVE Decimal(_)
Decimal(n) ==
    IF n < 10 THEN <<48 + n>> ELSE Decimal(n \div 10) \o <<48 + (n % 10)>>

\* importsMap[path]: Fake.importsMap assigns result[Path] for every import in
\* list order, so the last entry with the path is the one kept; a miss yields
\* the zero Import.
ImportsMapGet(imps, path) ==
    LET hits == {i \in 1..Len(imps) : imps[i].Path = path}
    IN  IF hits = {} THEN NoImport
        ELSE imps[CHOOSE i \in hits : \A k \in hits : k <= i]

RECURSIVE typeFor(_, _)
typeFor(typ, imps) ==
    CASE typ.kind = "nil" -> <<>>
      [] typ.kind = "Slice" -> Str(<<"[", "]">>) \o typeFor(typ.elem, imps)
      [] typ.kind = "Array" ->
            Str(<<"[">>) \o Decimal(typ.len) \o Str(<<"]">>)
                \o typeFor(typ.elem, imps)
      [] typ.kind = "Pointer" -> Str(<<"*">>) \o typeFor(typ.elem, imps)
      [] typ.kind = "Map" ->
            Str(<<"m", "a", "p", "[">>) \o typeFor(typ.key, imps)
                \o Str(<<"]">>) \o typeFor(typ.elem, imps)
      [] typ.kind = "Chan" ->
            CASE typ.dir = "SendRecv" ->
                    Str(<<"c", "h", "a", "n", " ">>) \o typeFor(typ.elem, imps)
              [] typ.dir = "SendOnly" ->
                    Str(<<"c", "h", "a", "n", "<", "-", " ">>)
                        \o typeFor(typ.elem, imps)
              [] typ.dir = "RecvOnly" ->
                    Str(<<"<", "-", "c", "h", "a", "n", " ">>)
                        \o typeFor(typ.elem, imps)
              [] OTHER -> <<>>
      [] typ.kind = "Basic" -> typ.name
      [] typ.kind = "Named" ->
            IF ~typ.hasObj THEN <<>>
            ELSE IF ~typ.hasPkg THEN typ.name
            ELSE LET imp == ImportsMapGet(imps, unvendor(typ.pkgPath))
                 IN  IF imp.Path = <<>> THEN typ.name
                     ELSE imp.Alias \o Str(<<".">>) \o typ.name
      [] OTHER -> <<>>

\* The Param that Generate builds for parameter i (1-based) of a signature
\* (lines 464-477).
ParamOf(sig, i, imps) ==
    LET isVariadic == i = Len(sig.Params) /\ sig.Variadic
        rendered == typeFor(sig.Params[i], imps)
        typ == IF isVariadic
               THEN Str(<<".", ".", ".">>) \o From(rendered, 2)
               ELSE rendered
    IN  [Name |-> Str(<<"a", "r", "g">>) \o Decimal(i),
         Type |-> typ,
         IsVariadic |-> isVariadic,
         IsSlice |-> HasPrefix(typ, Str(<<"[", "]">>))]

\* Params.Slices: the indexes of the parameters the template copies.
Slices(params) == {i \in 1..Len(params) : params[i].IsSlice}

----------------------------------------------------------------------------
(* The generation run: NewFake, then Generate up to the import map *)

\* The Fake that NewFake builds before it looks for the interface.
GenInit ==
    /\ Imports = <<Import(SyncStr, SyncStr)>>
    /\ InterfacePackage \in
          { Str(<<"p", "/", "a">>),
            Str(<<"q", "/", "v", "e", "n", "d", "o", "r", "/", "p", "/", "b">>) }
    /\ InterfaceAlias = <<>>
    /\ gpc = "new"
    /\ lastAdd = [made |-> FALSE]
    /\ preImports = <<>>
    /\ adds = 0
    /\ rounds = 0
    /\ Interface = <<>>
    /\ discovered = 0
    /\ importsMap = <<>>
    /\ FakeMethods = <<>>
    /\ generated = "none"

\* The package findPackageWithInterface stops at: the index of the first
\* package with types whose scope declares the interface, or 0.
FoundPackage(pkgs) ==
    LET hits == {i \in 1..Len(pkgs) : pkgs[i].Typed /\ pkgs[i].Declares}
    IN  IF hits = {} THEN 0 ELSE CHOOSE i \in hits : \A k \in hits : i <= k

findPackageWithInterface(pkgs) ==
    /\ gpc = "new"
    /\ LET i == FoundPackage(pkgs)
       IN  IF i = 0
           THEN /\ gpc' = "failed"
                /\ UNCHANGED <<Imports, InterfacePackage, InterfaceAlias, lastAdd>>
           ELSE LET path == unvendor(pkgs[i].PkgPath)
                    r == AddImportTo(Imports, pkgs[i].Name, path)
                IN  /\ InterfacePackage' = path
                    /\ InterfaceAlias' = pkgs[i].Name
                    /\ Imports' = r.imports
                    /\ lastAdd' = [alias |-> pkgs[i].Name, path |-> path,
                                   result |-> r.result, after |-> r.imports,
                                   made |-> TRUE, before |-> Imports]
                    /\ gpc' = "discover"
    /\ UNCHANGED <<preImports, adds, rounds>>

\* One AddImport call of import discovery (addImportsFor, line 572).
AddImport(alias, path) ==
    /\ gpc = "discover"
    /\ adds < MaxAdds
    /\ LET r == AddImportTo(Imports, alias, path)
       IN  /\ Imports' = r.imports
           /\ lastAdd' = [alias |-> alias, path |-> path,
                          result |-> r.result, after |-> r.imports,
                          made |-> TRUE, before |-> Imports]
    /\ adds' = adds + 1
    /\ UNCHANGED <<InterfacePackage, InterfaceAlias, gpc, preImports, rounds>>

\* disambiguateAliases up to its loop (lines 91-98), entered from importsMap.
disambiguateEnter ==
    /\ gpc = "discover"
    /\ preImports' = Imports
    /\ Imports' = sortImports(Imports)
    /\ gpc' = IF hasDuplicateAliases(sortImports(Imports)) THEN "loop" ELSE "done"
    /\ UNCHANGED <<InterfacePackage, InterfaceAlias, lastAdd, adds, rounds>>

\* One iteration of the for-loop that renames (lines 100-121).
disambiguateRound ==
    /\ gpc = "loop"
    /\ hasDuplicateAliases(Imports)
    /\ rounds < MaxRounds
    /\ Imports' = RenameRound(Imports)
    /\ InterfaceAlias' = AliasAfterRound(Imports, InterfacePackage, InterfaceAlias)
    /\ rounds' = rounds + 1
    /\ UNCHANGED <<InterfacePackage, gpc, lastAdd, preImports, adds>>

\* The iteration that finds no duplicate and breaks (lines 102-104).
disambiguateExit ==
    /\ gpc = "loop"
    /\ ~hasDuplicateAliases(Imports)
    /\ gpc' = "done"
    /\ UNCHANGED <<Imports, InterfacePackage, InterfaceAlias, lastAdd,
                   preImports, adds, rounds>>

----------------------------------------------------------------------------
(* Claims about the import registry *)

PathSet(imps) == {imps[i].Path : i \in 1..Len(imps)}

UniqueAliases(imps) ==
    \A i, j \in 1..Len(imps) : i # j => imps[i].Alias # imps[j].Alias

UniquePaths(imps) ==
    \A i, j \in 1..Len(imps) : i # j => imps[i].Path # imps[j].Path

\* C3: when disambiguateAliases has returned, no two imports share an alias,
\* and the imports' paths are exactly the paths the list held when it was
\* entered: none changed, added or removed.
C3_AliasesUniquePathsKept ==
    gpc = "done" =>
        /\ UniqueAliases(Imports)
        /\ Len(Imports) = Len(preImports)
        /\ PathSet(Imports) = PathSet(preImports)

\* C3's case: a list with a chain of collisions (x, x, xa) went through two
\* renaming rounds.
C3_Witness ==
    /\ gpc = "done"
    /\ rounds >= 2
    /\ ~UniqueAliases(preImports)

\* C4: every devendorized path occurs once in Imports; an AddImport whose
\* devendorized path is present returns the existing entry and leaves Imports
\* as it was, whatever the alias; one with a new path appends one entry.
C4_AddImportByPath ==
    /\ UniquePaths(Imports)
    /\ lastAdd.made =>
          LET p == unvendor(TrimSpace(lastAdd.path))
              old == {i \in 1..Len(lastAdd.before) : lastAdd.before[i].Path = p}
          IN  IF old # {}
              THEN /\ lastAdd.after = lastAdd.before
                   /\ \E i \in old : lastAdd.result = lastAdd.before[i]
              ELSE /\ lastAdd.after =
                         Append(lastAdd.before,
                                Import(TrimSpace(lastAdd.alias), p))
                   /\ lastAdd.result = Import(TrimSpace(lastAdd.alias), p)

\* C4's case: a vendored spelling of a path already present was added under
\* another alias.
C4_Witness ==
    /\ lastAdd.made
    /\ lastAdd.path # unvendor(TrimSpace(lastAdd.path))
    /\ lastAdd.after = lastAdd.before
    /\ lastAdd.result.Alias # TrimSpace(lastAdd.alias)
    /\ Len(Imports) >= 3

----------------------------------------------------------------------------
(* The generated fake: the interface it was generated for *)

Threads == {"t1", "t2"}

NoThread == "none"

IntType == Basic(Str(<<"i", "n", "t">>))

\* f.Methods, in method-set order: the names of the interface's methods.
MethodNames == <<"Get", "Log">>

Methods == {MethodNames[i] : i \in 1..Len(MethodNames)}

\* The interface:  Get(int, []int) int   and   Log(...int).
Signature(m) ==
    IF m = "Get"
    THEN [Params |-> <<IntType, Slice(IntType)>>, Variadic |-> FALSE,
          Results |-> <<IntType>>]
    ELSE [Params |-> <<Slice(IntType)>>, Variadic |-> TRUE, Results |-> <<>>]

\* Method.Params as Generate builds it (lines 463-478).
ParamsOf(m) ==
    [i \in 1..Len(Signature(m).Params) |-> ParamOf(Signature(m), i, <<>>)]

\* .Returns.HasLength and .Params.HasLength of the template.
HasReturns(m) == Len(Signature(m).Results) > 0
HasParams(m) == Len(Signature(m).Params) > 0

----------------------------------------------------------------------------
(* Go values: integers and slices over a heap of backing arrays *)

\* An address of a backing array: what allocated it and for what.
Addr(k, m, b, c) == [c |-> c, k |-> k, b |-> b, m |-> m]

NoAddr == Addr("none", "", 0, 0)

\* The array behind the slice the test passes to the fake.
XAddr == Addr("caller", "", 0, 0)

IntV(n) == [n |-> n, len |-> 0, tag |-> "int", arr |-> NoAddr]
NilSlice == [n |-> 0, len |-> 0, tag |-> "nil", arr |-> NoAddr]
SliceV(a, l) == [n |-> 0, len |-> l, tag |-> "slice", arr |-> a]

\* What a value is worth: a slice's value is its elements' values.
RECURSIVE Deep(_, _)
Deep(v, h) ==
    IF v.tag = "slice"
    THEN [n |-> 0, tag |-> "slice",
          elems |-> [i \in 1..v.len |-> Deep(h[v.arr][i], h)]]
    ELSE [n |-> v.n, tag |-> v.tag, elems |-> <<>>]

DeepSeq(vs, h) == [i \in 1..Len(vs) |-> Deep(vs[i], h)]

\* The capacity append gives a slice that it has to grow by one element.
GrowCap(c) == IF c = 0 THEN 1 ELSE 2 * c

\* append(s, x) for the ledger list of method key, whose arrays are named by
\* their capacity: the new slice header and the heap.
AppendTo(s, x, key, h) ==
    LET cap == IF s.tag = "slice" THEN s.arr.b ELSE 0
        old == IF s.tag = "slice" /\ s.len > 0
               THEN SubSeq(h[s.arr], 1, s.len) ELSE <<>>
    IN  IF Len(old) < cap
        THEN [heap |-> [h EXCEPT ![s.arr] = Append(old, x)],
              slice |-> SliceV(s.arr, Len(old) + 1)]
        ELSE LET a == Addr("list", key, GrowCap(cap), 0)
             IN  [heap |-> (a :> Append(old, x)) @@ h,
                  slice |-> SliceV(a, Len(old) + 1)]

----------------------------------------------------------------------------
(* sync.RWMutex *)

MutexNames == Methods \cup {"invocations"}

Unlocked == [writer |-> NoThread, readers |-> {}]

\* A Lock that never waits.
CanLock_free(mu) == TRUE

\* Lock returns once no goroutine holds the mutex in either mode.
CanLock(mu) == mutex[mu].writer = NoThread /\ mutex[mu].readers = {}

\* RLock returns once no goroutine holds the mutex in write mode.
CanRLock(mu) == mutex[mu].writer = NoThread

\* One lock for the whole fake instead of one per method.
Lock_global(mu, t) == [x \in DOMAIN mutex |-> [mutex[x] EXCEPT !.writer = t]]

Lock(mu, t) == [mutex EXCEPT ![mu].writer = t]
\* An Unlock that leaves the mutex held.
Unlock_noop(mu) == mutex

Unlock(mu) == [mutex EXCEPT ![mu].writer = NoThread]
RLock(mu, t) == [mutex EXCEPT ![mu].readers = @ \cup {t}]
RUnlock(mu, t) == [mutex EXCEPT ![mu].readers = @ \ {t}]

Holds(t, mu) == mutex[mu].writer = t \/ t \in mutex[mu].readers

----------------------------------------------------------------------------
(* The test's inputs, and the bounds of a run *)

\* The operations a test makes (a sequential test; a concurrent one), and the
\* call indexes it asks about.
MaxOps == 4
MaxConcurrentOps == 3
MaxIndex == 1

\* The argument tuples the test calls the methods with: a slice it keeps and
\* may write to later, or a nil slice.
ArgTuples(m) ==
    IF m = "Get"
    THEN {<<IntV(1), SliceV(XAddr, 1)>>, <<IntV(2), NilSlice>>}
    ELSE {<<SliceV(XAddr, 1)>>}

ReturnValues == {1}
OverrideValues == {3}
CallIndexes == 0..MaxIndex

\* The stub the test may assign: it answers from the arguments it is given.
Stubs == {"echo"}
StubResult(stub, args) == 10 + args[1].n

----------------------------------------------------------------------------
(* The state of a fresh fake, and of the test around it *)

NoResult == [kind |-> "none", n |-> 0, vals |-> <<>>, ledger |-> <<>>]

NoConfig == [stub |-> "nil", returns |-> 0, roc |-> <<>>]

Idle == [i |-> 0, k |-> 0, j |-> 0, m |-> "", v |-> 0, args |-> <<>>,
         op |-> "", rec |-> <<>>, passed |-> <<>>, ticket |-> 0, idx |-> 0,
         specific |-> FALSE, ret |-> 0, cfg0 |-> NoConfig, clean |-> TRUE,
         res |-> NoResult]

FakeInit ==
    /\ mutex = [mu \in MutexNames |-> Unlocked]
    /\ Stub = [m \in Methods |-> "nil"]
    /\ ArgsForCall = [m \in Methods |-> <<>>]
    /\ Returns = [m \in Methods |-> 0]
    /\ ReturnsOnCall = [m \in Methods |-> <<>>]
    /\ invocations = <<>>
    /\ heap = (XAddr :> <<IntV(1)>>)
    /\ pc = [t \in Threads |-> "idle"]
    /\ loc = [t \in Threads |-> Idle]
    /\ calls = [m \in Methods |-> <<>>]
    /\ held = [ledger |-> <<>>, valid |-> FALSE]
    /\ started = 0
    /\ ops = 0
    /\ writes = 0
    /\ crashed = FALSE

----------------------------------------------------------------------------
(* A call of a generated method (template lines 610-631) *)

\* Marks the operations other threads have in flight on method m: a write to
\* m's stub or returns happened while they ran.
Dirty(u, m) ==
    [t \in Threads |->
        IF t # u /\ pc[t] # "idle" /\ loc[t].m = m
        THEN [loc[t] EXCEPT !.clean = FALSE] ELSE loc[t]]

\* Params.AsNamedArgs: what the method records for each parameter, the copy of
\* a parameter that IsSlice (nil when the argument is nil) and the argument
\* itself otherwise.
Recorded(params, args, ticket) ==
    [i \in 1..Len(args) |->
        IF params[i].IsSlice
        THEN IF args[i].tag = "slice"
             THEN SliceV(Addr("copy", "", ticket, i), args[i].len)
             ELSE NilSlice
        ELSE args[i]]

\* The heap after lines 611-615 made the copies.
CopySlices(params, args, ticket, h) ==
    LET made == {i \in Slices(params) : args[i].tag = "slice"}
        new == {Addr("copy", "", ticket, i) : i \in made}
    IN  [a \in DOMAIN h \cup new |->
            IF a \in new
            THEN SubSeq(h[args[a.c].arr], 1, args[a.c].len)
            ELSE h[a]]

\* A lookup made after the call was appended to the arguments list.
OverrideIndex_afterAppend(argsForCall) == Len(argsForCall) + 1

\* The index line 617 looks up in the ReturnsOnCall map.
OverrideIndex(argsForCall) == Len(argsForCall)

\* A ledger that keeps only the first invocation of each method.
recordInvocation_firstOnly(inv, h, key, args) ==
    IF key \in DOMAIN inv
    THEN [invocations |-> inv, heap |-> h]
    ELSE LET r == AppendTo(SliceV(Addr("list", key, 0, 0), 0), args, key, h)
         IN  [invocations |-> (key :> r.slice) @@ inv, heap |-> r.heap]

\* recordInvocation (lines 683-689): the ledger and the heap after it.
recordInvocation(inv, h, key, args) ==
    LET cur == IF key \in DOMAIN inv THEN inv[key]
               ELSE SliceV(Addr("list", key, 0, 0), 0)
        r == AppendTo(cur, args, key, h)
    IN  [invocations |-> (key :> r.slice) @@ inv, heap |-> r.heap]

\* A call whose per-call override wins over the stub.
CallResult_overrideFirst(m, stub, specific, ret, returns, args) ==
    IF HasReturns(m) /\ specific
    THEN [NoResult EXCEPT !.kind = "int", !.n = ret]
    ELSE IF stub # "nil"
         THEN IF HasReturns(m)
              THEN [NoResult EXCEPT !.kind = "int",
                                    !.n = StubResult(stub, args)]
              ELSE [NoResult EXCEPT !.kind = "void", !.n = 1]
         ELSE IF HasReturns(m)
              THEN [NoResult EXCEPT !.kind = "int", !.n = returns]
              ELSE [NoResult EXCEPT !.kind = "void"]

\* What the call returns (lines 623-630).
CallResult(m, stub, specific, ret, returns, args) ==
    IF stub # "nil"
    THEN IF HasReturns(m)
         THEN [NoResult EXCEPT !.kind = "int", !.n = StubResult(stub, args)]
         ELSE [NoResult EXCEPT !.kind = "void", !.n = 1]
    ELSE IF HasReturns(m)
         THEN [NoResult EXCEPT !.kind = "int",
                               !.n = IF specific THEN ret ELSE returns]
         ELSE [NoResult EXCEPT !.kind = "void"]

CallBegin(t, m, args) ==
    /\ ~crashed
    /\ pc[t] = "idle"
    /\ ops < MaxOps
    /\ ops' = ops + 1
    /\ started' = started + 1
    /\ loc' = [loc EXCEPT ![t] =
                 [Idle EXCEPT !.op = "call", !.m = m, !.args = args,
                              !.rec = Recorded(ParamsOf(m), args, started + 1),
                              !.passed = DeepSeq(args, heap),
                              !.ticket = started + 1,
                              !.cfg0 = [stub |-> Stub[m],
                                        returns |-> Returns[m],
                                        roc |-> ReturnsOnCall[m]]]]
    /\ heap' = CopySlices(ParamsOf(m), args, started + 1, heap)
    /\ pc' = [pc EXCEPT ![t] = "c_lock"]
    /\ UNCHANGED <<mutex, Stub, ArgsForCall, Returns, ReturnsOnCall,
                   invocations, calls, held, writes, crashed>>

\* fake.<m>Mutex.Lock() (line 616)
CallLock(t) ==
    /\ ~crashed
    /\ pc[t] = "c_lock"
    /\ CanLock(loc[t].m)
    /\ mutex' = Lock(loc[t].m, t)
    /\ pc' = [pc EXCEPT ![t] = "c_record"]
    /\ UNCHANGED <<Stub, ArgsForCall, Returns, ReturnsOnCall, invocations,
                   heap, loc, calls, held, started, ops, writes, crashed>>

\* lines 617-620
CallRecord(t) ==
    LET m == loc[t].m
        k == OverrideIndex(ArgsForCall[m])
        specific == HasReturns(m) /\ k \in DOMAIN ReturnsOnCall[m]
    IN  /\ ~crashed
        /\ pc[t] = "c_record"
        /\ loc' = [loc EXCEPT ![t].k = k,
                              ![t].specific = specific,
                              ![t].ret = IF specific THEN ReturnsOnCall[m][k] ELSE 0,
                              ![t].idx = Len(calls[m])]
        /\ ArgsForCall' = [ArgsForCall EXCEPT ![m] = Append(@, loc[t].rec)]
        /\ calls' = [calls EXCEPT ![m] = Append(@, loc[t].passed)]
        /\ pc' = [pc EXCEPT ![t] = "c_ledger"]
        /\ UNCHANGED <<mutex, Stub, Returns, ReturnsOnCall, invocations, heap,
                       held, started, ops, writes, crashed>>

\* fake.invocationsMutex.Lock() in recordInvocation (line 681)
CallLedgerLock(t) ==
    /\ ~crashed
    /\ pc[t] = "c_ledger"
    /\ CanLock("invocations")
    /\ mutex' = Lock("invocations", t)
    /\ pc' = [pc EXCEPT ![t] = "c_append"]
    /\ UNCHANGED <<Stub, ArgsForCall, Returns, ReturnsOnCall, invocations,
                   heap, loc, calls, held, started, ops, writes, crashed>>

\* The rest of recordInvocation with the tuple of line 621, and the deferred
\* fake.invocationsMutex.Unlock().
CallLedgerAppend(t) ==
    LET tuple == Addr("tuple", "", loc[t].ticket, 0)
        r == recordInvocation(invocations, (tuple :> loc[t].rec) @@ heap,
                              loc[t].m, SliceV(tuple, Len(loc[t].rec)))
    IN  /\ ~crashed
        /\ pc[t] = "c_append"
        /\ invocations' = r.invocations
        /\ heap' = r.heap
        /\ mutex' = Unlock("invocations")
        /\ pc' = [pc EXCEPT ![t] = "c_unlock"]
        /\ UNCHANGED <<Stub, ArgsForCall, Returns, ReturnsOnCall, loc, calls, held,
                       started, ops, writes, crashed>>

\* fake.<m>Mutex.Unlock() (line 622)
CallUnlock(t) ==
    /\ ~crashed
    /\ pc[t] = "c_unlock"
    /\ mutex' = Unlock(loc[t].m)
    /\ pc' = [pc EXCEPT ![t] = "c_stub"]
    /\ UNCHANGED <<Stub, ArgsForCall, Returns, ReturnsOnCall, invocations,
                   heap, loc, calls, held, started, ops, writes, crashed>>

\* lines 623-630
CallReturn(t) ==
    /\ ~crashed
    /\ pc[t] = "c_stub"
    /\ loc' = [loc EXCEPT ![t].res =
                 CallResult(loc[t].m, Stub[loc[t].m], loc[t].specific,
                            loc[t].ret, Returns[loc[t].m], loc[t].args)]
    /\ pc' = [pc EXCEPT ![t] = "ret"]
    /\ UNCHANGED <<mutex, Stub, ArgsForCall, Returns, ReturnsOnCall,
                   invocations, heap, calls, held, started, ops, writes,
                   crashed>>

\* The operation is over: the test has its result.
Done(t) ==
    /\ ~crashed
    /\ pc[t] = "ret"
    /\ held' = IF loc[t].op = "Invocations"
               THEN [ledger |-> loc[t].res.ledger, valid |-> TRUE] ELSE held
    /\ loc' = [loc EXCEPT ![t] = Idle]
    /\ pc' = [pc EXCEPT ![t] = "idle"]
    /\ UNCHANGED <<mutex, Stub, ArgsForCall, Returns, ReturnsOnCall,
                   invocations, heap, calls, started, ops, writes, crashed>>

----------------------------------------------------------------------------
(* The accessors of a method (template lines 633-666) *)

CallCountBegin(t, m) ==
    /\ ~crashed
    /\ pc[t] = "idle"
    /\ ops < MaxOps
    /\ ops' = ops + 1
    /\ loc' = [loc EXCEPT ![t] = [Idle EXCEPT !.op = "CallCount", !.m = m]]
    /\ pc' = [pc EXCEPT ![t] = "q_rlock"]
    /\ UNCHANGED <<mutex, Stub, ArgsForCall, Returns, ReturnsOnCall,
                   invocations, heap, calls, held, started, writes, crashed>>

ArgsForCallBegin(t, m, i) ==
    /\ ~crashed
    /\ pc[t] = "idle"
    /\ HasParams(m)
    /\ ops < MaxOps
    /\ ops' = ops + 1
    /\ loc' = [loc EXCEPT ![t] =
                 [Idle EXCEPT !.op = "ArgsForCall", !.m = m, !.i = i]]
    /\ pc' = [pc EXCEPT ![t] = "q_rlock"]
    /\ UNCHANGED <<mutex, Stub, ArgsForCall, Returns, ReturnsOnCall,
                   invocations, heap, calls, held, started, writes, crashed>>

\* fake.<m>Mutex.RLock() (lines 634, 640)
AccessorRLock(t) ==
    /\ ~crashed
    /\ pc[t] = "q_rlock"
    /\ CanRLock(loc[t].m)
    /\ mutex' = RLock(loc[t].m, t)
    /\ pc' = [pc EXCEPT ![t] = "q_read"]
    /\ UNCHANGED <<Stub, ArgsForCall, Returns, ReturnsOnCall, invocations,
                   heap, loc, calls, held, started, ops, writes, crashed>>

\* ArgsForCall that counts its index from one.
AccessorResult_fromOne(op, argsForCall, i) ==
    IF op = "CallCount"
    THEN [NoResult EXCEPT !.kind = "int", !.n = Len(argsForCall)]
    ELSE IF 0 < i /\ i <= Len(argsForCall)
         THEN [NoResult EXCEPT !.kind = "args", !.vals = argsForCall[i]]
         ELSE [NoResult EXCEPT !.kind = "panic"]

\* What CallCount (line 636) and ArgsForCall (lines 642-643) return; an index
\* out of range panics.
AccessorResult(op, argsForCall, i) ==
    IF op = "CallCount"
    THEN [NoResult EXCEPT !.kind = "int", !.n = Len(argsForCall)]
    ELSE IF i < Len(argsForCall)
         THEN [NoResult EXCEPT !.kind = "args", !.vals = argsForCall[i + 1]]
         ELSE [NoResult EXCEPT !.kind = "panic"]

\* The read, and the deferred RUnlock.
AccessorRead(t) ==
    /\ ~crashed
    /\ pc[t] = "q_read"
    /\ loc' = [loc EXCEPT ![t].res =
                 AccessorResult(loc[t].op, ArgsForCall[loc[t].m], loc[t].i)]
    /\ mutex' = RUnlock(loc[t].m, t)
    /\ pc' = [pc EXCEPT ![t] = "ret"]
    /\ UNCHANGED <<Stub, ArgsForCall, Returns, ReturnsOnCall, invocations,
                   heap, calls, held, started, ops, writes, crashed>>

\* <M>Returns, line 647: fake.<M>Stub = nil
ReturnsBegin(t, m, v) ==
    /\ ~crashed
    /\ pc[t] = "idle"
    /\ HasReturns(m)
    /\ ops < MaxOps
    /\ ops' = ops + 1
    /\ Stub' = [Stub EXCEPT ![m] = "nil"]
    /\ loc' = [Dirty(t, m) EXCEPT ![t] =
                 [Idle EXCEPT !.op = "Returns", !.m = m, !.v = v]]
    /\ pc' = [pc EXCEPT ![t] = "r_write"]
    /\ UNCHANGED <<mutex, ArgsForCall, Returns, ReturnsOnCall, invocations,
                   heap, calls, held, started, writes, crashed>>

\* <M>Returns, lines 648-651: the assignment of fake.<m>Returns
ReturnsWrite(t) ==
    /\ ~crashed
    /\ pc[t] = "r_write"
    /\ Returns' = [Returns EXCEPT ![loc[t].m] = loc[t].v]
    /\ loc' = Dirty(t, loc[t].m)
    /\ pc' = [pc EXCEPT ![t] = "ret"]
    /\ UNCHANGED <<mutex, Stub, ArgsForCall, ReturnsOnCall, invocations, heap,
                   calls, held, started, ops, writes, crashed>>

\* <M>ReturnsOnCall, line 655: fake.<M>Stub = nil
ReturnsOnCallBegin(t, m, i, v) ==
    /\ ~crashed
    /\ pc[t] = "idle"
    /\ HasReturns(m)
    /\ ops < MaxOps
    /\ ops' = ops + 1
    /\ Stub' = [Stub EXCEPT ![m] = "nil"]
    /\ loc' = [Dirty(t, m) EXCEPT ![t] =
                 [Idle EXCEPT !.op = "ReturnsOnCall", !.m = m, !.i = i, !.v = v]]
    /\ pc' = [pc EXCEPT ![t] = "o_write"]
    /\ UNCHANGED <<mutex, ArgsForCall, Returns, ReturnsOnCall, invocations,
                   heap, calls, held, started, writes, crashed>>

\* <M>ReturnsOnCall, lines 656-665: the map is made if it is nil (a nil map
\* reads like an empty one) and entry i is assigned.
ReturnsOnCallWrite(t) ==
    /\ ~crashed
    /\ pc[t] = "o_write"
    /\ ReturnsOnCall' = [ReturnsOnCall EXCEPT ![loc[t].m] =
                            (loc[t].i :> loc[t].v) @@ @]
    /\ loc' = Dirty(t, loc[t].m)
    /\ pc' = [pc EXCEPT ![t] = "ret"]
    /\ UNCHANGED <<mutex, Stub, ArgsForCall, Returns, invocations, heap, calls,
                   held, started, ops, writes, crashed>>

\* The test assigns the exported field fake.<M>Stub (declared at line 592).
SetStub(t, m, stub) ==
    /\ ~crashed
    /\ pc[t] = "idle"
    /\ ops < MaxOps
    /\ ops' = ops + 1
    /\ Stub' = [Stub EXCEPT ![m] = stub]
    /\ loc' = Dirty(t, m)
    /\ UNCHANGED <<mutex, ArgsForCall, Returns, ReturnsOnCall, invocations,
                   heap, pc, calls, held, started, writes, crashed>>

----------------------------------------------------------------------------
(* Invocations (template lines 668-678) *)

InvocationsBegin(t) ==
    /\ ~crashed
    /\ pc[t] = "idle"
    /\ ops < MaxOps
    /\ ops' = ops + 1
    /\ loc' = [loc EXCEPT ![t] = [Idle EXCEPT !.op = "Invocations"]]
    /\ pc' = [pc EXCEPT ![t] = "i_rlock"]
    /\ UNCHANGED <<mutex, Stub, ArgsForCall, Returns, ReturnsOnCall,
                   invocations, heap, calls, held, started, writes, crashed>>

\* fake.invocationsMutex.RLock() (line 669)
InvocationsRLock(t) ==
    /\ ~crashed
    /\ pc[t] = "i_rlock"
    /\ CanRLock("invocations")
    /\ mutex' = RLock("invocations", t)
    /\ loc' = [loc EXCEPT ![t].j = 1]
    /\ pc' = [pc EXCEPT ![t] = "i_mrlock"]
    /\ UNCHANGED <<Stub, ArgsForCall, Returns, ReturnsOnCall, invocations,
                   heap, calls, held, started, ops, writes, crashed>>

\* copiedInvocations (lines 673-676): a new map with, for every key, the same
\* slice as the ledger has.
CopyInvocations(inv) == [key \in DOMAIN inv |-> inv[key]]

\* fake.<m>Mutex.RLock() for the j-th method (line 671); after the last one,
\* the copy.
InvocationsMethodRLock(t) ==
    LET j == loc[t].j
    IN  /\ ~crashed
        /\ pc[t] = "i_mrlock"
        /\ CanRLock(MethodNames[j])
        /\ mutex' = RLock(MethodNames[j], t)
        /\ IF j < Len(MethodNames)
           THEN /\ loc' = [loc EXCEPT ![t].j = j + 1]
                /\ pc' = pc
           ELSE /\ loc' = [loc EXCEPT ![t].res =
                             [NoResult EXCEPT !.kind = "ledger",
                                 !.ledger = CopyInvocations(invocations)]]
                /\ pc' = [pc EXCEPT ![t] = "i_munlock"]
        /\ UNCHANGED <<Stub, ArgsForCall, Returns, ReturnsOnCall, invocations,
                       heap, calls, held, started, ops, writes, crashed>>

\* The deferred fake.<m>Mutex.RUnlock() calls, last method first (line 672).
InvocationsMethodRUnlock(t) ==
    LET j == loc[t].j
    IN  /\ ~crashed
        /\ pc[t] = "i_munlock"
        /\ mutex' = RUnlock(MethodNames[j], t)
        /\ IF j > 1
           THEN /\ loc' = [loc EXCEPT ![t].j = j - 1]
                /\ pc' = pc
           ELSE /\ loc' = loc
                /\ pc' = [pc EXCEPT ![t] = "i_unlock"]
        /\ UNCHANGED <<Stub, ArgsForCall, Returns, ReturnsOnCall, invocations,
                       heap, calls, held, started, ops, writes, crashed>>

\* The deferred fake.invocationsMutex.RUnlock() (line 670)
InvocationsRUnlock(t) ==
    /\ ~crashed
    /\ pc[t] = "i_unlock"
    /\ mutex' = RUnlock("invocations", t)
    /\ pc' = [pc EXCEPT ![t] = "ret"]
    /\ UNCHANGED <<Stub, ArgsForCall, Returns, ReturnsOnCall, invocations,
                   heap, loc, calls, held, started, ops, writes, crashed>>

----------------------------------------------------------------------------
(* What the test does with the slices it holds, and the Go runtime *)

\* The test writes an element of the slice it passed to the fake.
MutateCallerSlice ==
    /\ ~crashed
    /\ ops < MaxOps
    /\ ops' = ops + 1
    /\ writes' = writes + 1
    /\ heap' = [heap EXCEPT ![XAddr][1] = IntV(3 - @.n)]
    /\ UNCHANGED <<mutex, Stub, ArgsForCall, Returns, ReturnsOnCall,
                   invocations, pc, loc, calls, held, started, crashed>>

\* The test assigns inv[m][i-1] = nil in a ledger inv that Invocations()
\* returned to it.
MutateHeldList(m, i) ==
    /\ ~crashed
    /\ held.valid
    /\ m \in DOMAIN held.ledger
    /\ i \in 1..held.ledger[m].len
    /\ ops < MaxOps
    /\ ops' = ops + 1
    /\ writes' = writes + 1
    /\ heap' = [heap EXCEPT ![held.ledger[m].arr][i] = NilSlice]
    /\ UNCHANGED <<mutex, Stub, ArgsForCall, Returns, ReturnsOnCall,
                   invocations, pc, loc, calls, held, started, crashed>>

\* The test assigns inv[m][i-1][0] = 9.
MutateHeldTuple(m, i) ==
    /\ ~crashed
    /\ held.valid
    /\ m \in DOMAIN held.ledger
    /\ i \in 1..held.ledger[m].len
    /\ heap[held.ledger[m].arr][i].tag = "slice"
    /\ heap[held.ledger[m].arr][i].len > 0
    /\ ops < MaxOps
    /\ ops' = ops + 1
    /\ writes' = writes + 1
    /\ heap' = [heap EXCEPT ![heap[held.ledger[m].arr][i].arr][1] = IntV(9)]
    /\ UNCHANGED <<mutex, Stub, ArgsForCall, Returns, ReturnsOnCall,
                   invocations, pc, loc, calls, held, started, crashed>>

\* A thread about to write method m's ReturnsOnCall map (line 662) while
\* another is about to read it (line 617) or to write it: Go's runtime may
\* detect the concurrent map access and stop the process.
MapRace(t, u) ==
    /\ t # u
    /\ pc[t] = "o_write"
    /\ pc[u] \in {"c_record", "o_write"}
    /\ loc[t].m = loc[u].m

ConcurrentMapFatal ==
    /\ ~crashed
    /\ \E t, u \in Threads : MapRace(t, u)
    /\ crashed' = TRUE
    /\ UNCHANGED <<mutex, Stub, ArgsForCall, Returns, ReturnsOnCall,
                   invocations, heap, pc, loc, calls, held, started, ops,
                   writes>>

----------------------------------------------------------------------------
(* Fake.Generate: discovery, the import map, rendering, the template *)

\* The largest number of same-named packages an interface refers to.
MaxGroup == 28

\* A type descriptor of a shape that neither typeFor nor addImportsFor has a
\* case for: *types.Signature, *types.Interface, *types.Struct.
Unhandled(kind) == [kind |-> kind]

HandledKinds ==
    {"nil", "Basic", "Pointer", "Slice", "Array", "Map", "Chan", "Named"}

\* The universe type error: a named type whose object has no package.
ErrorType == Named(Str(<<"e", "r", "r", "o", "r">>), TRUE, FALSE, <<>>, <<>>)

\* Named types of three packages: x at p/a, x at a vendored p/b, xa at p/c.
TypeT == Named(Str(<<"T">>), TRUE, TRUE, Str(<<"x">>), Str(<<"p", "/", "a">>))
TypeU ==
    Named(Str(<<"U">>), TRUE, TRUE, Str(<<"x">>),
          Str(<<"q", "/", "v", "e", "n", "d", "o", "r", "/", "p", "/", "b">>))
TypeV == Named(Str(<<"V">>), TRUE, TRUE, Str(<<"x", "a">>), Str(<<"p", "/", "c">>))

\* The i-th of the packages that are all named x: w/aa, w/ab, ...
WidePath(i) == Str(<<"w", "/">>) \o <<97 + (i \div 26), 97 + (i % 26)>>

WideType(i) == Named(Str(<<"T">>), TRUE, TRUE, Str(<<"x">>), WidePath(i))

Sig(params, variadic, results) ==
    [Params |-> params, Variadic |-> variadic, Results |-> results]

\* The method sets Generate is run on, each a list of signatures.
Interfaces ==
    { <<>>,
      <<Signature("Get"), Signature("Log")>>,
      <<Sig(<<TypeT, TypeV>>, FALSE, <<TypeU, ErrorType>>)>>,
      <<Sig(<<Pointer(TypeU), Map(TypeV, Slice(TypeT))>>, FALSE, <<>>),
        Sig(<<Chan("SendOnly", TypeT), Slice(TypeU)>>, TRUE,
            <<Array(3, TypeV)>>)>>,
      <<Sig(<<IntType, Chan("RecvOnly", Chan("SendRecv", TypeV))>>, FALSE,
            <<ErrorType>>)>>,
      <<Sig(<<Unhandled("Interface")>>, FALSE, <<ErrorType>>)>>,
      <<Sig(<<TypeT, Slice(Unhandled("Signature"))>>, TRUE,
            <<Map(TypeU, Unhandled("Struct"))>>)>>,
      <<Sig([i \in 1..MaxGroup |-> WideType(i - 1)], FALSE, <<>>)>> }

\* The types Generate's first loop hands to addImportsFor, in its order: for
\* every method its results, then its parameters (lines 446-457).
RECURSIVE Worklist(_)
Worklist(iface) ==
    IF iface = <<>> THEN <<>>
    ELSE iface[1].Results \o iface[1].Params \o Worklist(Tail(iface))

\* A discovery that looks at a type itself but at none of its elements.
addImportsFor_shallow(typ, imps) ==
    IF typ.kind = "Named" /\ typ.hasObj /\ typ.hasPkg
    THEN AddImportTo(imps, typ.pkgName, typ.pkgPath).imports
    ELSE imps

\* Fake.addImportsFor as a function of f.Imports.
RECURSIVE addImportsFor(_, _)
addImportsFor(typ, imps) ==
    CASE typ.kind = "nil" -> imps
      [] typ.kind = "Basic" -> imps
      [] typ.kind = "Pointer" -> addImportsFor(typ.elem, imps)
      [] typ.kind = "Map" ->
            addImportsFor(typ.elem, addImportsFor(typ.key, imps))
      [] typ.kind = "Chan" -> addImportsFor(typ.elem, imps)
      [] typ.kind = "Named" ->
            IF typ.hasObj /\ typ.hasPkg
            THEN AddImportTo(imps, typ.pkgName, typ.pkgPath).imports
            ELSE imps
      [] typ.kind = "Slice" -> addImportsFor(typ.elem, imps)
      [] typ.kind = "Array" -> addImportsFor(typ.elem, imps)
      [] OTHER -> imps

\* The Return that Generate builds for result i (1-based) of a signature
\* (lines 479-487).
ReturnOf(sig, i, imps) ==
    [Name |-> Str(<<"r", "e", "s", "u", "l", "t">>) \o Decimal(i),
     Type |-> typeFor(sig.Results[i], imps)]

\* The Method that Generate appends for a signature (lines 460-495).
MethodOf(sig, imps) ==
    [Params |-> [i \in 1..Len(sig.Params) |-> ParamOf(sig, i, imps)],
     Returns |-> [i \in 1..Len(sig.Results) |-> ReturnOf(sig, i, imps)]]

\* NewFake's findPackageWithInterface, which also sets f.Interface.
LoadInterface(pkgs, iface) ==
    /\ findPackageWithInterface(pkgs)
    /\ Interface' = IF FoundPackage(pkgs) = 0 THEN <<>> ELSE iface
    /\ UNCHANGED <<discovered, importsMap, FakeMethods, generated>>

\* One addImportsFor call of Generate's first loop (lines 450, 454).
GenerateDiscover ==
    /\ gpc = "discover"
    /\ discovered < Len(Worklist(Interface))
    /\ Imports' = addImportsFor(Worklist(Interface)[discovered + 1], Imports)
    /\ discovered' = discovered + 1
    /\ UNCHANGED <<InterfacePackage, InterfaceAlias, gpc, lastAdd, preImports,
                   adds, rounds, Interface, importsMap, FakeMethods, generated>>

\* f.importsMap() once the first loop is over (line 459): its call of
\* disambiguateAliases.
importsMapEnter ==
    /\ discovered = Len(Worklist(Interface))
    /\ disambiguateEnter
    /\ UNCHANGED tvars

\* The map that importsMap builds after disambiguateAliases (lines 138-142).
importsMapBuild ==
    /\ gpc = "done"
    /\ importsMap' = Imports
    /\ gpc' = "render"
    /\ UNCHANGED <<Imports, InterfacePackage, InterfaceAlias, lastAdd,
                   preImports, adds, rounds, Interface, discovered,
                   FakeMethods, generated>>

\* One iteration of Generate's second loop (lines 460-496).
GenerateMethod ==
    /\ gpc = "render"
    /\ Len(FakeMethods) < Len(Interface)
    /\ FakeMethods' =
          Append(FakeMethods,
                 MethodOf(Interface[Len(FakeMethods) + 1], importsMap))
    /\ UNCHANGED <<gvars, Interface, discovered, importsMap, generated>>

\* The template's execution and Generate's return (lines 498-504). What
\* imports.Process makes of the text is not the generator's: processed says
\* whether it returned the text or an error.
GenerateExecute(runImports, processed) ==
    /\ gpc = "render"
    /\ Len(FakeMethods) = Len(Interface)
    /\ generated' = IF runImports /\ ~processed THEN "error" ELSE "text"
    /\ gpc' = "emitted"
    /\ UNCHANGED <<Imports, InterfacePackage, InterfaceAlias, lastAdd,
                   preImports, adds, rounds, Interface, discovered,
                   importsMap, FakeMethods>>

----------------------------------------------------------------------------
(* Specifications *)

\* The steps of thread t.
ThreadStep(t, cap) ==
    \/ \E m \in Methods : \E args \in ArgTuples(m) :
          CallBegin(t, m, args) /\ ops' <= cap /\ UNCHANGED <<gvars, tvars>>
    \/ CallLock(t) /\ UNCHANGED <<gvars, tvars>>
    \/ CallRecord(t) /\ UNCHANGED <<gvars, tvars>>
    \/ CallLedgerLock(t) /\ UNCHANGED <<gvars, tvars>>
    \/ CallLedgerAppend(t) /\ UNCHANGED <<gvars, tvars>>
    \/ CallUnlock(t) /\ UNCHANGED <<gvars, tvars>>
    \/ CallReturn(t) /\ UNCHANGED <<gvars, tvars>>
    \/ Done(t) /\ UNCHANGED <<gvars, tvars>>
    \/ \E m \in Methods :
          CallCountBegin(t, m) /\ ops' <= cap /\ UNCHANGED <<gvars, tvars>>
    \/ \E m \in Methods, i \in CallIndexes :
          ArgsForCallBegin(t, m, i) /\ ops' <= cap /\ UNCHANGED <<gvars, tvars>>
    \/ AccessorRLock(t) /\ UNCHANGED <<gvars, tvars>>
    \/ AccessorRead(t) /\ UNCHANGED <<gvars, tvars>>
    \/ \E m \in Methods, v \in ReturnValues :
          ReturnsBegin(t, m, v) /\ ops' <= cap /\ UNCHANGED <<gvars, tvars>>
    \/ ReturnsWrite(t) /\ UNCHANGED <<gvars, tvars>>
    \/ \E m \in Methods, i \in CallIndexes, v \in OverrideValues :
          ReturnsOnCallBegin(t, m, i, v) /\ ops' <= cap /\ UNCHANGED <<gvars, tvars>>
    \/ ReturnsOnCallWrite(t) /\ UNCHANGED <<gvars, tvars>>
    \/ \E m \in Methods, stub \in Stubs :
          SetStub(t, m, stub) /\ ops' <= cap /\ UNCHANGED <<gvars, tvars>>
    \/ InvocationsBegin(t) /\ ops' <= cap /\ UNCHANGED <<gvars, tvars>>
    \/ InvocationsRLock(t) /\ UNCHANGED <<gvars, tvars>>
    \/ InvocationsMethodRLock(t) /\ UNCHANGED <<gvars, tvars>>
    \/ InvocationsMethodRUnlock(t) /\ UNCHANGED <<gvars, tvars>>
    \/ InvocationsRUnlock(t) /\ UNCHANGED <<gvars, tvars>>

\* The writes of the test through the slices it holds.
TestStep(cap) ==
    \/ MutateCallerSlice /\ ops' <= cap /\ UNCHANGED <<gvars, tvars>>
    \/ \E m \in Methods, i \in 1..MaxOps :
          MutateHeldList(m, i) /\ ops' <= cap /\ UNCHANGED <<gvars, tvars>>
    \/ \E m \in Methods, i \in 1..MaxOps :
          MutateHeldTuple(m, i) /\ ops' <= cap /\ UNCHANGED <<gvars, tvars>>

Init == GenInit /\ FakeInit

\* A fake in use: the generation run that emitted it does not matter, and is
\* taken to be one that was asked for an interface of package p/a.
FakeInUseInit == Init /\ InterfacePackage = Str(<<"p", "/", "a">>)

\* The generation engine.
GenNext ==
    \/ \E pkgs \in PackageLists :
          findPackageWithInterface(pkgs) /\ UNCHANGED <<rvars, tvars>>
    \/ \E alias \in RawAliases, path \in RawPaths :
          AddImport(alias, path) /\ UNCHANGED <<rvars, tvars>>
    \/ disambiguateEnter /\ UNCHANGED <<rvars, tvars>>
    \/ disambiguateRound /\ UNCHANGED <<rvars, tvars>>
    \/ disambiguateExit /\ UNCHANGED <<rvars, tvars>>
GenSpec == Init /\ [][GenNext]_vars

\* NewFake and Generate on an interface.
GenerateNext ==
    \/ \E pkgs \in PackageLists, iface \in Interfaces :
          LoadInterface(pkgs, iface) /\ UNCHANGED rvars
    \/ GenerateDiscover /\ UNCHANGED rvars
    \/ importsMapEnter /\ UNCHANGED rvars
    \/ disambiguateRound /\ UNCHANGED <<rvars, tvars>>
    \/ disambiguateExit /\ UNCHANGED <<rvars, tvars>>
    \/ importsMapBuild /\ UNCHANGED rvars
    \/ GenerateMethod /\ UNCHANGED rvars
    \/ \E runImports \in BOOLEAN, processed \in BOOLEAN :
          GenerateExecute(runImports, processed) /\ UNCHANGED rvars
GenerateSpec == Init /\ [][GenerateNext]_vars

\* The generation engine is one thread that runs to completion: a loop of
\* disambiguateAliases that was entered keeps taking its next iteration.
GenFairSpec ==
    GenSpec /\ WF_vars((disambiguateRound \/ disambiguateExit)
                          /\ UNCHANGED <<rvars, tvars>>)

\* One fake instance used by a test with one thread.
SeqNext ==
    \/ ThreadStep("t1", MaxOps)
    \/ TestStep(MaxOps)
SeqSpec == FakeInUseInit /\ [][SeqNext]_vars

\* One fake instance used by the threads of a concurrent test.
Next ==
    \/ \E t \in Threads : ThreadStep(t, MaxConcurrentOps)
    \/ TestStep(MaxConcurrentOps)
    \/ ConcurrentMapFatal /\ UNCHANGED <<gvars, tvars>>
Spec == FakeInUseInit /\ [][Next]_vars

----------------------------------------------------------------------------
(* Claims about the locks of the generated fake *)

\* The mutex thread t is waiting for, if it is at a Lock or RLock call.
Requests(t) ==
    CASE pc[t] = "c_lock" -> [mu |-> loc[t].m, mode |-> "w"]
      [] pc[t] = "c_ledger" -> [mu |-> "invocations", mode |-> "w"]
      [] pc[t] = "q_rlock" -> [mu |-> loc[t].m, mode |-> "r"]
      [] pc[t] = "i_rlock" -> [mu |-> "invocations", mode |-> "r"]
      [] pc[t] = "i_mrlock" -> [mu |-> MethodNames[loc[t].j], mode |-> "r"]
      [] OTHER -> [mu |-> "", mode |-> ""]

\* The threads whose hold on that mutex keeps t waiting.
Blockers(t) ==
    LET r == Requests(t)
    IN  IF r.mu = "" THEN {}
        ELSE ({mutex[r.mu].writer} \ {NoThread})
                \cup (IF r.mode = "w" THEN mutex[r.mu].readers ELSE {})

\* C1: no thread asks for a method's lock while it holds the ledger lock, and
\* a thread that holds the ledger lock holds a method's lock too (it took the
\* method's lock before, and gives the ledger lock back first).
C1_MethodLockBeforeLedgerLock ==
    \A t \in Threads :
        /\ Requests(t).mu \in Methods => ~Holds(t, "invocations")
        /\ Holds(t, "invocations") => \E m \in Methods : Holds(t, m)

\* C2: no interleaving reaches a deadlock: there is no set of threads each of
\* which waits for a lock that another thread of the set holds.
C2_NoDeadlock ==
    ~\E D \in SUBSET Threads :
        /\ D # {}
        /\ \A t \in D : Blockers(t) \cap D # {}

\* C10: a thread that writes a method's default returns or its override map
\* holds that method's lock in write mode, CallCount and ArgsForCall read
\* holding it in read mode, and no such write is pending while a call of the
\* method reads the override map under the lock.
C10_ReturnsUnderLock ==
    /\ \A t \in Threads :
          pc[t] \in {"r_write", "o_write"} => mutex[loc[t].m].writer = t
    /\ \A t \in Threads :
          pc[t] = "q_read" => t \in mutex[loc[t].m].readers
    /\ \A t, u \in Threads :
          ~(/\ pc[t] \in {"r_write", "o_write"}
            /\ pc[u] = "c_record"
            /\ loc[t].m = loc[u].m)

\* Thread t is inside the body of a generated method (lines 610-631).
InCall(t) ==
    pc[t] \in {"c_lock", "c_record", "c_ledger", "c_append", "c_unlock",
               "c_stub"}

\* Thread t, in a call of one method, waits for a lock that thread u, in a
\* call of a different method, holds.
WaitsAcrossMethods(t, u) ==
    /\ InCall(t)
    /\ InCall(u)
    /\ loc[t].m # loc[u].m
    /\ u \in Blockers(t)

\* C12, as stated: calls of two different methods never block each other: no
\* thread in a call of one method waits for a lock held by a thread in a call
\* of a different method.
C12_MethodsNeverBlock ==
    \A t, u \in Threads : ~WaitsAcrossMethods(t, u)

\* C12, amended: a call holds no method's lock but its own, so a call never
\* waits for the lock of another method; the one lock a call of one method
\* can wait for while a call of a different method holds it is the ledger
\* lock, which that call holds only around its append to the ledger.
C12_OnlyLedgerLockShared ==
    /\ \A t \in Threads, m \in Methods :
          InCall(t) /\ Holds(t, m) => loc[t].m = m
    /\ \A t, u \in Threads :
          WaitsAcrossMethods(t, u) =>
              /\ Requests(t).mu = "invocations"
              /\ pc[u] = "c_append"
              /\ mutex["invocations"].writer = u

\* C12's case: a call of one method holds its own lock and waits for the
\* ledger lock, which a call of the other method holds.
C12_Witness ==
    \E t, u \in Threads :
        /\ WaitsAcrossMethods(t, u)
        /\ pc[t] = "c_ledger"
        /\ Holds(t, loc[t].m)
        /\ Holds(u, loc[u].m)

----------------------------------------------------------------------------
(* Claims about what the generated fake returns and records *)

\* The call of thread t has returned, and nothing wrote the method's stub or
\* returns while it ran.
Returned(t, op) == pc[t] = "ret" /\ loc[t].op = op /\ loc[t].clean

\* C5: with no stub set, the call with k calls to its method before it returns
\* the override configured for k if there is one, and the configured default
\* (zero if none was configured) otherwise.
C5_OverrideThenDefault ==
    \A t \in Threads :
        (Returned(t, "call") /\ HasReturns(loc[t].m) /\ loc[t].cfg0.stub = "nil")
        => loc[t].res.n =
              IF loc[t].idx \in DOMAIN loc[t].cfg0.roc
              THEN loc[t].cfg0.roc[loc[t].idx]
              ELSE loc[t].cfg0.returns

\* C5's case: the second call finds an override for index 1, none being set
\* for index 0, over a configured default.
C5_Witness ==
    \E t \in Threads :
        /\ Returned(t, "call") /\ loc[t].cfg0.stub = "nil"
        /\ loc[t].idx = 1
        /\ DOMAIN loc[t].cfg0.roc = {1}
        /\ loc[t].cfg0.returns = 1
        /\ loc[t].res.n = 3

\* C6: a call made while a stub is set returns what the stub answers for the
\* arguments passed, whatever default and overrides are configured; Returns
\* and ReturnsOnCall leave the stub cleared and their value configured.
C6_StubUntilReconfigured ==
    \A t \in Threads :
        /\ (Returned(t, "call") /\ loc[t].cfg0.stub # "nil")
           => IF HasReturns(loc[t].m)
              THEN loc[t].res.n = 10 + loc[t].passed[1].n
              ELSE loc[t].res.n = 1
        /\ Returned(t, "Returns")
           => Stub[loc[t].m] = "nil" /\ Returns[loc[t].m] = loc[t].v
        /\ Returned(t, "ReturnsOnCall")
           => /\ Stub[loc[t].m] = "nil"
              /\ loc[t].i \in DOMAIN ReturnsOnCall[loc[t].m]
              /\ ReturnsOnCall[loc[t].m][loc[t].i] = loc[t].v

\* C6's case: a stub set after a default and an override for this very call
\* were configured answered the call.
C6_Witness ==
    \E t \in Threads :
        /\ Returned(t, "call") /\ loc[t].cfg0.stub # "nil"
        /\ loc[t].cfg0.returns = 1
        /\ loc[t].idx \in DOMAIN loc[t].cfg0.roc
        /\ loc[t].res.n = 10 + loc[t].passed[1].n

\* The argument tuples a ledger lists for method m, by value.
Listed(ledger, m, h) ==
    IF m \in DOMAIN ledger
    THEN [k \in 1..ledger[m].len |-> Deep(h[ledger[m].arr][k], h).elems]
    ELSE <<>>

\* Thread t, in Invocations, holds every lock and has made its copy.
Copied(t) ==
    /\ pc[t] = "i_munlock" /\ loc[t].j = Len(MethodNames)
    /\ loc[t].res.kind = "ledger"

\* C7: what Invocations() returns has an entry for exactly the methods that
\* were called, and lists under each exactly the argument tuples of the calls
\* made to it, in call order (the test having written through no slice).
C7_LedgerComplete ==
    \A t \in Threads :
        (Copied(t) /\ writes = 0)
        => /\ DOMAIN loc[t].res.ledger = {m \in Methods : calls[m] # <<>>}
           /\ \A m \in Methods : Listed(loc[t].res.ledger, m, heap) = calls[m]

\* C7's case: Get, Log and Get again were called, in this order, with
\* different arguments, and Invocations() is returning.
C7_Witness ==
    \E t \in Threads :
        /\ Copied(t) /\ writes = 0
        /\ Len(calls["Get"]) = 2 /\ Len(calls["Log"]) = 1
        /\ calls["Get"][1] # calls["Get"][2]
        /\ heap[loc[t].res.ledger["Get"].arr][1].arr.b = 1
        /\ heap[loc[t].res.ledger["Log"].arr][1].arr.b = 2
        /\ heap[loc[t].res.ledger["Get"].arr][2].arr.b = 3

\* The parameters of m that are declared with a slice type.
SliceParams(m) ==
    {i \in 1..Len(Signature(m).Params) : Signature(m).Params[i].kind = "Slice"}

\* C8: for every parameter declared with a slice type, the last one of a
\* variadic method included, what ArgsForCall(i) returns and what the ledger
\* that Invocations() returns holds for a call is worth what was passed to
\* that call, whatever the caller wrote to its slice since.
C8_SliceArgumentsCopied ==
    \A t \in Threads :
        /\ (pc[t] = "ret" /\ loc[t].op = "ArgsForCall" /\ loc[t].res.kind = "args")
           => \A p \in SliceParams(loc[t].m) :
                 Deep(loc[t].res.vals[p], heap) = calls[loc[t].m][loc[t].i + 1][p]
        /\ (pc[t] = "ret" /\ loc[t].op = "Invocations")
           => \A m \in DOMAIN loc[t].res.ledger :
                 \A k \in 1..loc[t].res.ledger[m].len :
                    \A p \in SliceParams(m) :
                       LET tuple == heap[loc[t].res.ledger[m].arr][k]
                       IN  tuple.tag = "slice" /\ p <= tuple.len
                           => Deep(heap[tuple.arr][p], heap) = calls[m][k][p]

\* What a ledger is worth: per method, the values of the tuples it lists.
DeepLedger(ledger, h) == [m \in DOMAIN ledger |-> Deep(ledger[m], h)]

\* C9: what Invocations() returned shares nothing with the fake: a step of
\* the fake leaves the returned ledger worth what it was, and a write of the
\* test through the returned ledger leaves the fake's ledger worth what it was.
C9_InvocationsDeepCopy ==
    [][/\ (held.valid /\ held' = held /\ writes' = writes)
          => DeepLedger(held.ledger, heap') = DeepLedger(held.ledger, heap)
       /\ (writes' # writes /\ heap'[XAddr] = heap[XAddr])
          => DeepLedger(invocations, heap') = DeepLedger(invocations, heap)]_vars

\* The calls the fake's argument records hold, over all methods.
RECURSIVE RecordedCalls(_)
RecordedCalls(ms) ==
    IF ms = {} THEN 0
    ELSE LET m == CHOOSE x \in ms : TRUE
         IN  Len(ArgsForCall[m]) + RecordedCalls(ms \ {m})

\* The calls that began and have not reached their append (line 618).
Unrecorded == {t \in Threads : pc[t] \in {"c_lock", "c_record"}}

\* C13: CallCount() returns the number of calls of the method recorded so
\* far and ArgsForCall(i) the arguments passed to the i-th of them (a panic
\* for an index out of range); every call that began is recorded exactly
\* once, in its own method's record, by the time it leaves the method's lock;
\* and nothing else changes a method's record: no call of another method, no
\* Returns, no ReturnsOnCall. Slice arguments are compared as long as the
\* caller has not written to its slice since.
C13_CallCountAndArgsForCall ==
    [][/\ \A t \in Threads :
             (pc[t] = "q_read" /\ pc'[t] = "ret") =>
                LET m == loc[t].m
                    res == loc'[t].res
                IN  IF loc[t].op = "CallCount"
                    THEN res.kind = "int" /\ res.n = Len(calls[m])
                    ELSE IF loc[t].i < Len(calls[m])
                    THEN /\ res.kind = "args"
                         /\ Len(res.vals) = Len(calls[m][loc[t].i + 1])
                         /\ \A p \in 1..Len(res.vals) :
                               (writes = 0 \/ p \notin SliceParams(m)) =>
                                  Deep(res.vals[p], heap)
                                     = calls[m][loc[t].i + 1][p]
                    ELSE res.kind = "panic"
       /\ \A m \in Methods :
             ArgsForCall'[m] # ArgsForCall[m] =>
                \E t \in Threads :
                   /\ pc[t] = "c_record" /\ pc'[t] = "c_ledger"
                   /\ loc[t].op = "call" /\ loc[t].m = m
                   /\ ArgsForCall'[m] = Append(ArgsForCall[m], loc[t].rec)
                   /\ calls'[m] = Append(calls[m], loc[t].passed)
       /\ RecordedCalls(Methods)' = started' - Cardinality(Unrecorded')
       /\ \A m \in Methods : Len(calls'[m]) = Len(ArgsForCall'[m])]_vars

\* C13's case: two calls of a method with different arguments returned, and
\* ArgsForCall(1) returned the arguments of the second.
C13_Witness ==
    \E t \in Threads, m \in Methods :
        /\ pc[t] = "ret"
        /\ loc[t].op = "ArgsForCall" /\ loc[t].m = m /\ loc[t].i = 1
        /\ loc[t].res.kind = "args"
        /\ Len(calls[m]) = 2
        /\ calls[m][1] # calls[m][2]
        /\ DeepSeq(loc[t].res.vals, heap) = calls[m][2]
        /\ Unrecorded = {}
        /\ \A u \in Threads : ~InCall(u)

\* What method m's argument record holds, by value.
RecordedArgs(m) ==
    [k \in 1..Len(ArgsForCall[m]) |-> DeepSeq(ArgsForCall[m][k], heap)]

\* Thread t is in a call that has looked up its override and recorded its
\* arguments (lines 617-620).
PastRecord(t) ==
    /\ loc[t].op = "call"
    /\ pc[t] \in {"c_ledger", "c_append", "c_unlock", "c_stub", "ret"}

\* C19: under any interleaving of calls (the test writing through no slice it
\* holds), whenever no thread holds method m's lock for writing the ledger
\* lists for m exactly the calls of m's argument record, in the same order;
\* and the call that is the k-th to record its arguments looked up the
\* override map at index k-1, so that the N calls of m used the N indexes
\* 0..N-1 and no two of them the same.
C19_LedgerMatchesRecord ==
    [][/\ \A m \in Methods :
             (mutex'[m].writer = NoThread /\ writes' = 0) =>
                Listed(invocations', m, heap') = RecordedArgs(m)'
       /\ \A t \in Threads :
             (pc[t] = "c_record" /\ pc'[t] = "c_ledger") =>
                /\ loc'[t].k = Len(ArgsForCall[loc[t].m])
                /\ Len(ArgsForCall'[loc[t].m]) = loc'[t].k + 1
       /\ \A t, u \in Threads :
             (t # u /\ PastRecord(t)' /\ PastRecord(u)' /\ loc'[t].m = loc'[u].m)
                => loc'[t].k # loc'[u].k]_vars

\* C19's case: two threads called the same method at the same time with
\* different arguments, both are past the method's lock, and they looked up
\* the indexes 0 and 1.
C19_Witness ==
    \E t, u \in Threads :
        /\ t # u
        /\ pc[t] = "c_stub" /\ pc[u] = "c_stub"
        /\ loc[t].m = loc[u].m
        /\ loc[t].k = 0 /\ loc[u].k = 1
        /\ loc[t].passed # loc[u].passed
        /\ mutex[loc[t].m].writer = NoThread
        /\ Len(Listed(invocations, loc[t].m, heap)) = 2
        /\ writes = 0

\* C20: a thread that is about to invoke the stub (or to return the
\* configured values) holds no lock of the fake, neither the method's nor the
\* ledger's nor any other, so nothing the stub calls on the fake waits for
\* its own thread; and the call is recorded by then: the method's argument
\* record and the ledger both hold its arguments at its call index.
C20_StubAfterUnlock ==
    \A t \in Threads :
        pc[t] = "c_stub" =>
            LET m == loc[t].m
                i == loc[t].idx + 1
            IN  /\ \A mu \in MutexNames : ~Holds(t, mu)
                /\ i <= Len(ArgsForCall[m])
                /\ i <= Len(Listed(invocations, m, heap))
                /\ writes = 0 =>
                      /\ DeepSeq(ArgsForCall[m][i], heap) = loc[t].passed
                      /\ Listed(invocations, m, heap)[i] = loc[t].passed

\* C20's case: a stub is set and a call is about to invoke it, while another
\* thread is in a call of the same fake.
C20_Witness ==
    \E t, u \in Threads :
        /\ t # u
        /\ pc[t] = "c_stub"
        /\ Stub[loc[t].m] # "nil"
        /\ InCall(u)
        /\ writes = 0

----------------------------------------------------------------------------
(* Claims about the generation run *)

\* The imports registered for the interface's defining package.
InterfaceImports == {i \in 1..Len(Imports) : Imports[i].Path = InterfacePackage}

\* C17: once findPackageWithInterface has succeeded, and through every later
\* AddImport and every round of disambiguateAliases, Imports holds exactly one
\* entry for the path InterfacePackage, and InterfaceAlias is the alias of that
\* entry.
C17_InterfaceAliasBound ==
    gpc \in {"discover", "loop", "done", "render", "emitted"} =>
        /\ Cardinality(InterfaceImports) = 1
        /\ \A i \in InterfaceImports : Imports[i].Alias = InterfaceAlias

\* C17's case: disambiguation renamed the import of the interface's package,
\* which had been found under another alias.
C17_Witness ==
    /\ gpc = "done"
    /\ rounds >= 1
    /\ \E i \in 1..Len(preImports) :
          /\ preImports[i].Path = InterfacePackage
          /\ preImports[i].Alias # InterfaceAlias
    /\ \E i \in InterfaceImports : Imports[i].Alias = InterfaceAlias

\* The orders in which the elements of a list can come.
RECURSIVE Orders(_)
Orders(list) ==
    IF list = <<>> THEN {<<>>}
    ELSE UNION {{<<list[i]>> \o rest :
                    rest \in Orders([k \in 1..(Len(list) - 1) |->
                                        IF k < i THEN list[k] ELSE list[k + 1]])} :
                i \in 1..Len(list)}

\* f.InterfaceAlias when disambiguateAliases was entered: the alias under
\* which the interface's package was registered.
EnteredAlias ==
    LET hits == {i \in 1..Len(preImports) :
                    preImports[i].Path = InterfacePackage}
    IN  preImports[CHOOSE i \in hits : TRUE].Alias

\* C15: the list and the InterfaceAlias that disambiguateAliases leaves are
\* those it leaves for every other order of the imports it was entered with:
\* the result depends on the set of (alias, path) pairs only.
C15_OrderIndependent ==
    gpc = "done" =>
        \A other \in Orders(preImports) :
            disambiguateAliases(other, InterfacePackage, EnteredAlias)
                = [Imports |-> Imports, InterfaceAlias |-> InterfaceAlias]

\* C15's case: the imports were discovered in an order that is not the order
\* of their paths, two of them collided, and one was renamed.
C15_Witness ==
    /\ gpc = "done"
    /\ rounds >= 1
    /\ Len(preImports) >= 4
    /\ preImports # sortImports(preImports)
    /\ \E i \in 1..Len(Imports) :
          /\ Imports[i] \notin {preImports[k] : k \in 1..Len(preImports)}
          /\ Imports[i].Path = InterfacePackage

\* C14: the loop of disambiguateAliases, once entered, ends: whatever the
\* aliases of the list (colliding, or one a prefix of another as in x, x, xa),
\* after finitely many rounds no alias is shared and the function returns.
C14_Terminates == (gpc = "loop") ~> (gpc = "done" /\ UniqueAliases(Imports))

\* C14's case: two imports shared an alias that a third one extends by "a",
\* and the loop returned after more than one round.
C14_Witness ==
    /\ gpc = "done"
    /\ rounds >= 2
    /\ \E i, j, k \in 1..Len(preImports) :
          /\ i # j
          /\ preImports[i].Alias = preImports[j].Alias
          /\ preImports[k].Alias = preImports[i].Alias \o StringOfByte(97)

\* The 0-based place of entry i among the imports of the list that share its
\* alias, in list order.
PlaceInGroup(imps, i) ==
    Cardinality({k \in 1..(i - 1) : imps[k].Alias = imps[i].Alias})

\* C18: in a round of disambiguateAliases, an import whose alias no other
\* import has keeps it; in a group that shares an alias the first import in
\* path order keeps it; and the j-th import after the first gets the alias
\* with exactly one lowercase letter appended: a for the first, b for the
\* second, and so on, and a lowercase letter whatever the size of the group.
C18_OneLowercaseLetter ==
    [][(gpc = "loop" /\ rounds' = rounds + 1) =>
          /\ Len(Imports') = Len(Imports)
          /\ \A i \in 1..Len(Imports) :
                LET j == PlaceInGroup(Imports, i)
                IN  /\ Imports'[i].Path = Imports[i].Path
                    /\ j = 0 => Imports'[i].Alias = Imports[i].Alias
                    /\ j > 0 =>
                          \E c \in 97..122 :
                             /\ Imports'[i].Alias = Imports[i].Alias \o <<c>>
                             /\ j <= 26 => c = 96 + j]_vars

\* A type with a shape the renderer has no case for somewhere in it.
RECURSIVE HasUnhandled(_)
HasUnhandled(typ) ==
    CASE typ.kind \in {"nil", "Basic", "Named"} -> FALSE
      [] typ.kind \in {"Pointer", "Slice", "Array", "Chan"} ->
            HasUnhandled(typ.elem)
      [] typ.kind = "Map" -> HasUnhandled(typ.key) \/ HasUnhandled(typ.elem)
      [] OTHER -> TRUE

\* The types rendered into the methods built so far.
RenderedTypes ==
    UNION {{FakeMethods[k].Params[i].Type : i \in 1..Len(FakeMethods[k].Params)}
              \cup {FakeMethods[k].Returns[i].Type :
                        i \in 1..Len(FakeMethods[k].Returns)} :
           k \in 1..Len(FakeMethods)}

\* C11: when a parameter or a result of a method has a shape the renderer
\* does not handle, Generate ends with an error and with no text: it emits no
\* fake in which the type of that parameter or result is empty or cut short.
C11_UnsupportedShapeFails ==
    (/\ generated # "none"
     /\ \E i \in 1..Len(Worklist(Interface)) :
           HasUnhandled(Worklist(Interface)[i]))
    => /\ generated = "error"
       /\ <<>> \notin RenderedTypes

\* The named types with a defining package that typeFor reaches in a type.
RECURSIVE NamedIn(_)
NamedIn(typ) ==
    CASE typ.kind = "Named" ->
            IF typ.hasObj /\ typ.hasPkg THEN {typ} ELSE {}
      [] typ.kind \in {"Pointer", "Slice", "Array", "Chan"} -> NamedIn(typ.elem)
      [] typ.kind = "Map" -> NamedIn(typ.key) \cup NamedIn(typ.elem)
      [] OTHER -> {}

\* The named types of the methods rendered so far.
RenderedNamed ==
    UNION {UNION ({NamedIn(Interface[k].Params[i]) :
                      i \in 1..Len(Interface[k].Params)}
                  \cup {NamedIn(Interface[k].Results[i]) :
                           i \in 1..Len(Interface[k].Results)}) :
           k \in 1..Len(FakeMethods)}

\* The alias the emitted import list binds to a package path.
EmittedAlias(path) == Imports[IndexOfPath(Imports, unvendor(path))].Alias

\* C16: a method is rendered only after addImportsFor ran on every parameter
\* and result of every method and disambiguateAliases returned. So every named
\* type with a package that typeFor reaches is registered, under one alias
\* that no other import has; what was rendered is what rendering with the
\* emitted import list gives; and a parameter or result that is such a named
\* type is rendered as that import's alias, a dot and the type's name, never
\* as the bare name.
C16_DiscoveryBeforeRendering ==
    (gpc \in {"render", "emitted"} \/ FakeMethods # <<>>) =>
        /\ discovered = Len(Worklist(Interface))
        /\ UniqueAliases(Imports)
        /\ importsMap = Imports
        /\ \A typ \in RenderedNamed :
              /\ IndexOfPath(Imports, unvendor(typ.pkgPath)) > 0
              /\ ImportsMapGet(importsMap, unvendor(typ.pkgPath)).Alias
                    = EmittedAlias(typ.pkgPath)
        /\ \A k \in 1..Len(FakeMethods) :
              /\ FakeMethods[k] = MethodOf(Interface[k], Imports)
              /\ \A i \in 1..Len(Interface[k].Params) :
                    LET typ == Interface[k].Params[i]
                    IN  typ \in NamedIn(typ) =>
                           FakeMethods[k].Params[i].Type
                              = EmittedAlias(typ.pkgPath) \o Str(<<".">>)
                                   \o typ.name
              /\ \A i \in 1..Len(Interface[k].Results) :
                    LET typ == Interface[k].Results[i]
                    IN  typ \in NamedIn(typ) =>
                           FakeMethods[k].Returns[i].Type
                              = EmittedAlias(typ.pkgPath) \o Str(<<".">>)
                                   \o typ.name

\* C16's case: the text was emitted for an interface with named types of
\* packages that share a name, one of them vendored and met inside a pointer
\* only; its import was renamed, and the pointer was rendered with the new
\* alias.
C16_Witness ==
    /\ generated = "text"
    /\ rounds >= 1
    /\ \E k \in 1..Len(FakeMethods) :
          \E i \in 1..Len(Interface[k].Params) :
             /\ Interface[k].Params[i] = Pointer(TypeU)
             /\ EmittedAlias(TypeU.pkgPath) # TypeU.pkgName
             /\ FakeMethods[k].Params[i].Type
                   = Str(<<"*">>) \o EmittedAlias(TypeU.pkgPath)
                        \o Str(<<".", "U">>)

====
